---------------------------- MODULE Spec2Model ----------------------------
(***************************************************************************)
(* Model of the EbSynth project editor (src/main.py): the binary codec of  *)
(* project files (read_project / write_project and their helpers) and the  *)
(* interval generator (create_intervals).                                  *)
(*                                                                         *)
(* Strings are sequences of character codes, buffers are sequences of      *)
(* bytes (0..255), a float32 is the triple of its IEEE-754 binary32        *)
(* fields (sign, exponent, mantissa).                                      *)
(***************************************************************************)
EXTENDS Integers, Sequences, FiniteSets, TLC

VARIABLES pc, project, buffer, tamper, result, gen

vars == <<pc, project, buffer, tamper, result, gen>>

(***************************************************************************)
(* Bounds of the model.                                                    *)
(***************************************************************************)
MaxIntervals == 2
MaxSpan == 6
MaxStep == 3
MaxExtent == 3

(***************************************************************************)
(* Program constants.                                                      *)
(***************************************************************************)
\* 'EBS05'
MAGIC_PROGRAM_VERSION == <<69, 66, 83, 48, 53>>
\* 'V02'
MAGIC_EXTRA_METADATA == <<86, 48, 50>>
MAGIC_FINAL_INTEGER == 704

MaxInt32 == 2147483647
MinInt32 == (-2147483647) - 1

\* Exceptions raised by the helpers of the codec.
StructError == "struct.error"
UnicodeDecodeError == "UnicodeDecodeError"

(***************************************************************************)
(* Floats: IEEE-754 binary32 values given by their three fields.           *)
(***************************************************************************)
F32(s, e, m) == [s |-> s, e |-> e, m |-> m]
F_1 == F32(0, 127, 0)
F_4 == F32(0, 129, 0)
F_10 == F32(0, 130, 2097152)
F_30 == F32(0, 131, 7340032)
F_3500 == F32(0, 138, 5947392)
F_neg_half == F32(1, 126, 0)
F_inf == F32(0, 255, 0)
F_zero == F32(0, 0, 0)
F_tiny == F32(0, 0, 1)
F_24 == F32(0, 131, 4194304)
F_neg_max == F32(1, 254, 8388607)

(***************************************************************************)
(* Default values of the dataclasses.                                      *)
(***************************************************************************)
\* 'out\[#####].png'
DefaultOutputPath == <<111, 117, 116, 92, 91, 35, 35, 35, 35, 35, 93, 46, 112, 110, 103>>
\* 'keys\[#####].png'
DefaultKeyPath == <<107, 101, 121, 115, 92, 91, 35, 35, 35, 35, 35, 93, 46, 112, 110, 103>>
\* 'video\[#####].png'
DefaultVideoPath == <<118, 105, 100, 101, 111, 92, 91, 35, 35, 35, 35, 35, 93, 46, 112, 110, 103>>
\* 'mask\[#####].png'
DefaultMaskPath == <<109, 97, 115, 107, 92, 91, 35, 35, 35, 35, 35, 93, 46, 112, 110, 103>>

EbSynthInterval ==
    [key_frame |-> 1,
     first_frame_is_used |-> FALSE,
     final_frame_is_used |-> FALSE,
     first_frame |-> 1,
     final_frame |-> 1,
     output_path |-> DefaultOutputPath]

EbSynthProject ==
    [program_version |-> MAGIC_PROGRAM_VERSION,
     frames_per_second |-> F_30,
     key_images_path |-> DefaultKeyPath,
     video_images_path |-> DefaultVideoPath,
     mask_images_path |-> DefaultMaskPath,
     mask_images_enabled |-> FALSE,
     key_images_weight |-> F_1,
     video_images_weight |-> F_4,
     mask_images_weight |-> F_1,
     mapping |-> F_10,
     de_flicker |-> F_1,
     diversity |-> F_3500,
     intervals |-> <<>>,
     synthesis_detail |-> 2,
     use_gpu |-> TRUE]

(***************************************************************************)
(* struct.pack / struct.unpack.                                            *)
(***************************************************************************)
Min(a, b) == IF a <= b THEN a ELSE b

\* struct.pack('<?', value)
PackBool(value) == <<IF value THEN 1 ELSE 0>>

\* struct.unpack('<?', bytes): any non-zero byte is True
UnpackBool(b) == b[1] # 0

\* struct.pack('<i', value): little-endian two's complement
PackInt(value) ==
    LET v1 == value \div 256
        v2 == v1 \div 256
        v3 == v2 \div 256
    IN  <<value % 256, v1 % 256, v2 % 256, v3 % 256>>

\* struct.unpack('<i', bytes) read as an unsigned number: the sign bit ignored
UnpackIntUnsigned(b) ==
    b[1] + 256 * b[2] + 65536 * b[3] + 16777216 * (b[4] % 128)

\* struct.unpack('<i', bytes)
UnpackInt(b) ==
    b[1] + 256 * b[2] + 65536 * b[3]
         + 16777216 * (IF b[4] < 128 THEN b[4] ELSE b[4] - 256)

\* struct.pack('<f', value): sign 1 bit, exponent 8 bits, mantissa 23 bits
PackFloat(value) ==
    <<value.m % 256,
      (value.m \div 256) % 256,
      (value.e % 2) * 128 + (value.m \div 65536),
      value.s * 128 + (value.e \div 2)>>

\* struct.unpack('<f', bytes)
UnpackFloat(b) ==
    F32(b[4] \div 128,
        (b[4] % 128) * 2 + (b[3] \div 128),
        (b[3] % 128) * 65536 + b[2] * 256 + b[1])

(***************************************************************************)
(* Writing.  The writer produces a sequence of segments, one per field,    *)
(* [f |-> field name, b |-> bytes]; the buffer is their concatenation.     *)
(***************************************************************************)
Seg(f, b) == [f |-> f, b |-> b]

write_bool(f, value) == <<Seg(f, PackBool(value))>>

write_int(f, value) == <<Seg(f, PackInt(value))>>

write_float(f, value) == <<Seg(f, PackFloat(value))>>

\* string.encode('ascii') + b'\0'
write_constant_string(f, string) == <<Seg(f, string \o <<0>>)>>

\* the length prefix and the body belong to the same field
write_variable_string(f, string) == <<Seg(f, PackInt(Len(string)) \o string)>>

\* write_interval with first_frame and final_frame written in the other order
write_interval_swapped(interval) ==
    write_int("key_frame", interval.key_frame)
    \o write_bool("first_frame_is_used", interval.first_frame_is_used)
    \o write_bool("final_frame_is_used", interval.final_frame_is_used)
    \o write_int("final_frame", interval.final_frame)
    \o write_int("first_frame", interval.first_frame)
    \o write_variable_string("output_path", interval.output_path)

write_interval(interval) ==
    write_int("key_frame", interval.key_frame)
    \o write_bool("first_frame_is_used", interval.first_frame_is_used)
    \o write_bool("final_frame_is_used", interval.final_frame_is_used)
    \o write_int("first_frame", interval.first_frame)
    \o write_int("final_frame", interval.final_frame)
    \o write_variable_string("output_path", interval.output_path)

RECURSIVE write_intervals(_)
write_intervals(intervals) ==
    IF intervals = <<>> THEN <<>>
    ELSE write_interval(Head(intervals)) \o write_intervals(Tail(intervals))

write_project(p) ==
    write_constant_string("program_version", p.program_version)
    \o write_variable_string("video_images_path", p.video_images_path)
    \o write_variable_string("mask_images_path", p.mask_images_path)
    \o write_variable_string("key_images_path", p.key_images_path)
    \o write_bool("mask_images_enabled", p.mask_images_enabled)
    \o write_float("key_images_weight", p.key_images_weight)
    \o write_float("video_images_weight", p.video_images_weight)
    \o write_float("mask_images_weight", p.mask_images_weight)
    \o write_float("mapping", p.mapping)
    \o write_float("de_flicker", p.de_flicker)
    \o write_float("diversity", p.diversity)
    \o write_int("interval_count", Len(p.intervals))
    \o write_intervals(p.intervals)
    \o write_constant_string("project_version", MAGIC_EXTRA_METADATA)
    \o write_int("synthesis_detail", p.synthesis_detail)
    \o write_bool("use_gpu", p.use_gpu)
    \o write_float("frames_per_second", p.frames_per_second)
    \o write_int("magic_number", MAGIC_FINAL_INTEGER)

\* the bytes of a sequence of segments
RECURSIVE Bytes(_)
Bytes(segs) == IF segs = <<>> THEN <<>> ELSE Head(segs).b \o Bytes(Tail(segs))

\* the field names of a sequence of segments
Names(segs) == [i \in 1..Len(segs) |-> segs[i].f]

\* the offset at which segment i begins
Offset(segs, i) == Len(Bytes(SubSeq(segs, 1, i - 1)))

\* the fields of a sequence of segments with the offset each begins at
Layout(segs) == [i \in 1..Len(segs) |-> [f |-> segs[i].f, off |-> Offset(segs, i)]]

(***************************************************************************)
(* Reading.  A reader state r is the buffer cursor and what was built from *)
(* the bytes read so far:                                                  *)
(*   pos  the cursor in the buffer                                         *)
(*   err  the exception raised ("none" when none): nothing is read after   *)
(*        an exception                                                     *)
(*   log  the fields read so far with the offset each began at             *)
(*   x    the value read last                                              *)
(*   val  the project under construction                                   *)
(*   cur  the interval under construction                                  *)
(* Every read takes a reader state and returns the next one.               *)
(***************************************************************************)
NoError == "none"

Reader0 ==
    [pos |-> 0, err |-> NoError, log |-> <<>>, x |-> <<>>,
     val |-> EbSynthProject, cur |-> EbSynthInterval]

\* buffer.read(n): at most n bytes, fewer at the end of the buffer; a
\* negative n reads up to the end of the buffer
Read(buf, pos, n) ==
    IF n < 0 THEN SubSeq(buf, pos + 1, Len(buf))
    ELSE SubSeq(buf, pos + 1, Min(pos + n, Len(buf)))

\* bytes.decode('ascii') fails on a byte above 127
IsAscii(b) == \A i \in 1..Len(b) : b[i] < 128

\* the value x read for field f goes to the keyword argument f of the
\* interval or of the project under construction
Put(r, f, x) ==
    IF f \in DOMAIN EbSynthInterval THEN [r EXCEPT !.cur[f] = x]
    ELSE IF f \in DOMAIN EbSynthProject THEN [r EXCEPT !.val[f] = x]
    ELSE r

\* n bytes were read for field f and gave the value x
Got(r, f, n, x) ==
    Put([r EXCEPT !.pos = @ + n, !.x = x,
                  !.log = Append(@, [f |-> f, off |-> r.pos])], f, x)

\* n bytes were read for field f and the exception err was raised
Raise(r, f, n, err) ==
    [r EXCEPT !.pos = @ + n, !.err = err,
              !.log = Append(@, [f |-> f, off |-> r.pos])]

\* struct.unpack('<?', buffer.read(1)): fails when fewer bytes were read
read_bool(buf, r0, f) ==
    CHOOSE out \in
        {IF r.err # NoError THEN r
         ELSE IF Len(Read(buf, r.pos, 1)) < 1
         THEN Raise(r, f, Len(Read(buf, r.pos, 1)), StructError)
         ELSE Got(r, f, 1, UnpackBool(Read(buf, r.pos, 1))) : r \in {r0}} : TRUE

\* struct.unpack('<i', buffer.read(4)): fails when fewer bytes were read
read_int(buf, r0, f) ==
    CHOOSE out \in
        {IF r.err # NoError THEN r
         ELSE IF Len(Read(buf, r.pos, 4)) < 4
         THEN Raise(r, f, Len(Read(buf, r.pos, 4)), StructError)
         ELSE Got(r, f, 4, UnpackInt(Read(buf, r.pos, 4))) : r \in {r0}} : TRUE

\* struct.unpack('<f', buffer.read(4)): fails when fewer bytes were read
read_float(buf, r0, f) ==
    CHOOSE out \in
        {IF r.err # NoError THEN r
         ELSE IF Len(Read(buf, r.pos, 4)) < 4
         THEN Raise(r, f, Len(Read(buf, r.pos, 4)), StructError)
         ELSE Got(r, f, 4, UnpackFloat(Read(buf, r.pos, 4))) : r \in {r0}} : TRUE

\* read_constant_string returning the reference text instead of the bytes read
read_constant_string_reference(buf, r0, f, reference) ==
    CHOOSE out \in
        {LET b == Read(buf, r.pos, Len(reference) + 1)
             s == SubSeq(b, 1, Len(b) - 1)
         IN  IF r.err # NoError THEN r
             ELSE IF ~IsAscii(s) THEN Raise(r, f, Len(b), UnicodeDecodeError)
             ELSE Got(r, f, Len(b), IF s = <<>> THEN s ELSE reference) : r \in {r0}} : TRUE

\* buffer.read(len(reference) + 1)[:-1].decode('ascii'): a short read is not
\* an error, the last byte read is dropped whatever it is
read_constant_string(buf, r0, f, reference) ==
    CHOOSE out \in
        {LET b == Read(buf, r.pos, Len(reference) + 1)
             s == SubSeq(b, 1, Len(b) - 1)
         IN  IF r.err # NoError THEN r
             ELSE IF ~IsAscii(s) THEN Raise(r, f, Len(b), UnicodeDecodeError)
             ELSE Got(r, f, Len(b), s) : r \in {r0}} : TRUE

\* length = read_int(buffer); buffer.read(length).decode('ascii'): a short
\* read of the body is not an error
read_variable_string(buf, r0, f) ==
    CHOOSE out \in
        {LET prefix == Read(buf, r.pos, 4)
             length == UnpackInt(prefix)
             b == Read(buf, r.pos + 4, length)
         IN  IF r.err # NoError THEN r
             ELSE IF Len(prefix) < 4 THEN Raise(r, f, Len(prefix), StructError)
             ELSE IF ~IsAscii(b) THEN Raise(r, f, 4 + Len(b), UnicodeDecodeError)
             ELSE Got(r, f, 4 + Len(b), b) : r \in {r0}} : TRUE

\* EbSynthInterval(...) of the six values read is the next element of the
\* list of intervals
NewInterval(r0) ==
    CHOOSE out \in
        {IF r.err # NoError THEN r
         ELSE [r EXCEPT !.val.intervals = Append(@, r.cur)] : r \in {r0}} : TRUE

read_interval(buf, r) ==
    LET key_frame == read_int(buf, r, "key_frame")
        first_frame_is_used == read_bool(buf, key_frame, "first_frame_is_used")
        final_frame_is_used == read_bool(buf, first_frame_is_used, "final_frame_is_used")
        first_frame == read_int(buf, final_frame_is_used, "first_frame")
        final_frame == read_int(buf, first_frame, "final_frame")
        output_path == read_variable_string(buf, final_frame, "output_path")
    IN  NewInterval(output_path)

\* [read_interval(buffer) for _ in range(n)]: no interval when n <= 0
RECURSIVE read_intervals(_, _, _)
read_intervals(buf, r0, n0) ==
    CHOOSE out \in
        {IF r.err # NoError \/ n <= 0 THEN r
         ELSE read_intervals(buf, read_interval(buf, r), n - 1) :
            r \in {r0}, n \in {n0}} : TRUE

\* intervals=[read_interval(buffer) for _ in range(read_int(buffer))]
read_interval_list(buf, r0) ==
    CHOOSE out \in
        {read_intervals(buf, count, count.x) :
            count \in {read_int(buf, r0, "interval_count")}} : TRUE

\* the fields that are always present
read_always_present(buf, r) ==
    LET program_version == read_constant_string(buf, r, "program_version", MAGIC_PROGRAM_VERSION)
        video_images_path == read_variable_string(buf, program_version, "video_images_path")
        mask_images_path == read_variable_string(buf, video_images_path, "mask_images_path")
        key_images_path == read_variable_string(buf, mask_images_path, "key_images_path")
        mask_images_enabled == read_bool(buf, key_images_path, "mask_images_enabled")
        key_images_weight == read_float(buf, mask_images_enabled, "key_images_weight")
        video_images_weight == read_float(buf, key_images_weight, "video_images_weight")
        mask_images_weight == read_float(buf, video_images_weight, "mask_images_weight")
        mapping == read_float(buf, mask_images_weight, "mapping")
        de_flicker == read_float(buf, mapping, "de_flicker")
        diversity == read_float(buf, de_flicker, "diversity")
    IN  read_interval_list(buf, diversity)

\* read_extra_metadata reading the three fields whatever the token is
read_extra_metadata_always(buf, r0) ==
    CHOOSE out \in
        {LET synthesis_detail == read_int(buf, extra, "synthesis_detail")
             use_gpu == read_bool(buf, synthesis_detail, "use_gpu")
             frames_per_second == read_float(buf, use_gpu, "frames_per_second")
         IN  IF extra.err # NoError THEN extra
             ELSE frames_per_second :
            extra \in {read_constant_string(buf, r0, "project_version",
                                            MAGIC_EXTRA_METADATA)}} : TRUE

\* the extra metadata, read when the token that follows the intervals is a
\* non-empty string
read_extra_metadata(buf, r0) ==
    CHOOSE out \in
        {LET synthesis_detail == read_int(buf, extra, "synthesis_detail")
             use_gpu == read_bool(buf, synthesis_detail, "use_gpu")
             frames_per_second == read_float(buf, use_gpu, "frames_per_second")
         IN  IF extra.err # NoError \/ extra.x = <<>> THEN extra
             ELSE frames_per_second :
            extra \in {read_constant_string(buf, r0, "project_version",
                                            MAGIC_EXTRA_METADATA)}} : TRUE

\* the outcome of read_project(buffer): the project returned (val, when err
\* is "none"), the exception raised (err), the cursor (pos) and the fields
\* read (log)
read_project(buf) ==
    CHOOSE out \in
        {[val |-> r.val, pos |-> r.pos, err |-> r.err, log |-> r.log] :
            r \in {read_extra_metadata(buf, read_always_present(buf, Reader0))}} : TRUE

(***************************************************************************)
(* The interval generator.                                                 *)
(***************************************************************************)
\* str(n) of a natural number
RECURSIVE Digits(_)
Digits(n) == IF n < 10 THEN <<48 + n>> ELSE Digits(n \div 10) \o <<48 + (n % 10)>>

RECURSIVE ZeroPad(_, _)
ZeroPad(s, width) == IF Len(s) >= width THEN s ELSE ZeroPad(<<48>> \o s, width)

\* output.format(i=index) for templates whose replacement fields are '{i}'
\* and '{i:0W}' (W one digit); every other character is copied
RECURSIVE Format(_, _)
Format(output, index) ==
    IF output = <<>> THEN <<>>
    ELSE IF Len(output) >= 3 /\ SubSeq(output, 1, 3) = <<123, 105, 125>>
    THEN Digits(index) \o Format(SubSeq(output, 4, Len(output)), index)
    ELSE IF /\ Len(output) >= 6
            /\ SubSeq(output, 1, 4) = <<123, 105, 58, 48>>
            /\ output[5] \in 48..57
            /\ output[6] = 125
    THEN ZeroPad(Digits(index), output[5] - 48)
         \o Format(SubSeq(output, 7, Len(output)), index)
    ELSE <<Head(output)>> \o Format(Tail(output), index)

\* output.replace('%', ':')
ReplacePercent(output) ==
    [i \in 1..Len(output) |-> IF output[i] = 37 THEN 58 ELSE output[i]]

\* list(range(start, stop, step)) for step # 0
RECURSIVE Range(_, _, _)
Range(start, stop, step) ==
    IF (step > 0 /\ start >= stop) \/ (step < 0 /\ start <= stop) THEN <<>>
    ELSE <<start>> \o Range(start + step, stop, step)

\* enumerate(seq) counting from 1
EnumerateFromOne(seq) == [n \in 1..Len(seq) |-> <<n, seq[n]>>]

\* enumerate(seq): counts from 0
Enumerate(seq) == [n \in 1..Len(seq) |-> <<n - 1, seq[n]>>]

\* create_one_interval with the left extent added instead of subtracted
create_one_interval_left_added(index_and_key, final, left, right, output) ==
    [key_frame |-> index_and_key[2],
     first_frame_is_used |-> TRUE,
     final_frame_is_used |-> TRUE,
     first_frame |-> index_and_key[2] + left,
     final_frame |-> Min(index_and_key[2] + right, final),
     output_path |-> Format(output, index_and_key[1])]

\* create_one_interval without the clamp of the final frame
create_one_interval_unclamped(index_and_key, final, left, right, output) ==
    [key_frame |-> index_and_key[2],
     first_frame_is_used |-> TRUE,
     final_frame_is_used |-> TRUE,
     first_frame |-> index_and_key[2] - left,
     final_frame |-> index_and_key[2] + right,
     output_path |-> Format(output, index_and_key[1])]

create_one_interval(index_and_key, final, left, right, output) ==
    [key_frame |-> index_and_key[2],
     first_frame_is_used |-> TRUE,
     final_frame_is_used |-> TRUE,
     first_frame |-> index_and_key[2] - left,
     final_frame |-> Min(index_and_key[2] + right, final),
     output_path |-> Format(output, index_and_key[1])]

\* create_intervals whose range of keyframes includes final
create_intervals_inclusive(first, final, step, left, right, output) ==
    LET keys == Enumerate(Range(first + left, final + 1, step))
    IN  [n \in 1..Len(keys) |-> create_one_interval(keys[n], final, left, right, output)]

\* the intervals of create_intervals, fully consumed; step # 0
create_intervals(first, final, step, left, right, output) ==
    LET keys == Enumerate(Range(first + left, final, step))
    IN  [n \in 1..Len(keys) |-> create_one_interval(keys[n], final, left, right, output)]

(***************************************************************************)
(* State.                                                                  *)
(*   pc       where the run of the editor is: "edit", "generated",         *)
(*            "written", "tampered", "read"                                *)
(*   project  the project in memory                                        *)
(*   buffer   the bytes of the project file                                *)
(*   tamper   what happened to the file between its writing and reading    *)
(*   result   the outcome of read_project on the file                      *)
(*   gen      the last call of create_intervals and what it returned       *)
(***************************************************************************)
NoTamper == [kind |-> "none", at |-> 0, tok |-> <<>>]

NoResult == [val |-> EbSynthProject, pos |-> 0, err |-> NoError, log |-> <<>>]

NoGen == [called |-> FALSE, first |-> 0, final |-> 0, step |-> 0, left |-> 0,
          right |-> 0, output |-> <<>>, err |-> NoError, intervals |-> <<>>]

\* Inputs of the codec.
\* 'EBS04'
OtherProgramVersion == <<69, 66, 83, 48, 52>>

ProgramVersions == {MAGIC_PROGRAM_VERSION, OtherProgramVersion}

\* 'XYZ' and three NUL characters
OtherExtraTokens == {<<88, 89, 90>>, <<0, 0, 0>>}

OtherInterval ==
    [key_frame |-> 70000,
     first_frame_is_used |-> TRUE,
     final_frame_is_used |-> FALSE,
     first_frame |-> MinInt32,
     final_frame |-> MaxInt32,
     output_path |-> <<111, 49>>]

Intervals == {EbSynthInterval, OtherInterval}

IntervalLists == UNION {[1..n -> Intervals] : n \in 0..MaxIntervals}

\* a project with no field at its default: paths 'v', '' and 'k' followed by
\* DEL, float32 values of both signs, zero, a subnormal, the largest and inf
OtherProject ==
    [program_version |-> OtherProgramVersion,
     frames_per_second |-> F_24,
     key_images_path |-> <<107, 127>>,
     video_images_path |-> <<118>>,
     mask_images_path |-> <<>>,
     mask_images_enabled |-> TRUE,
     key_images_weight |-> F_neg_half,
     video_images_weight |-> F_inf,
     mask_images_weight |-> F_zero,
     mapping |-> F_tiny,
     de_flicker |-> F_neg_max,
     diversity |-> F_4,
     intervals |-> <<>>,
     synthesis_detail |-> MinInt32,
     use_gpu |-> FALSE]

\* the default project with some of its settings changed
EditedProject ==
    [EbSynthProject EXCEPT !.video_images_path = <<>>,
                           !.mask_images_enabled = TRUE,
                           !.frames_per_second = F_neg_max,
                           !.synthesis_detail = MaxInt32]

Projects ==
    {[base EXCEPT !.program_version = pv, !.intervals = il] :
        base \in {EbSynthProject, OtherProject, EditedProject},
        pv \in ProgramVersions, il \in IntervalLists}

\* Inputs of the generator.
Firsts == {-1, 0, 100}

\* 'o{i}' and '{i%02}.p'
Templates == {<<111, 123, 105, 125>>, <<123, 105, 37, 48, 50, 125, 46, 112>>}

(***************************************************************************)
(* The codec: a project is written to a file; the file is read back as it  *)
(* is, or after it was truncated or some of its bytes were replaced.       *)
(***************************************************************************)
Init ==
    /\ pc = "edit"
    /\ project \in Projects
    /\ buffer = <<>>
    /\ tamper = NoTamper
    /\ result = NoResult
    /\ gen = NoGen

WriteProject ==
    /\ pc = "edit"
    /\ buffer' = Bytes(write_project(project))
    /\ pc' = "written"
    /\ UNCHANGED <<project, tamper, result, gen>>

\* the offset of the first field named f in the file of the project
OffsetOf(p, f) ==
    LET segs == write_project(p)
        i == CHOOSE j \in 1..Len(segs) :
                segs[j].f = f /\ \A k \in 1..(j - 1) : segs[k].f # f
    IN  Offset(segs, i)

\* buf with the bytes that begin at offset off replaced by b
Overwrite(buf, off, b) ==
    [i \in 1..Len(buf) |->
        IF i > off /\ i <= off + Len(b) THEN b[i - off] ELSE buf[i]]

Truncate(t) ==
    /\ pc = "written"
    /\ t \in 0..(Len(buffer) - 1)
    /\ buffer' = SubSeq(buffer, 1, t)
    /\ tamper' = [kind |-> "truncate", at |-> t, tok |-> <<>>]
    /\ pc' = "tampered"
    /\ UNCHANGED <<project, result, gen>>

SetIntervalCount(count) ==
    /\ pc = "written"
    /\ buffer' = Overwrite(buffer, OffsetOf(project, "interval_count"), PackInt(count))
    /\ tamper' = [kind |-> "count", at |-> count, tok |-> <<>>]
    /\ pc' = "tampered"
    /\ UNCHANGED <<project, result, gen>>

ReplaceToken(f, tok) ==
    /\ pc = "written"
    /\ buffer' = Overwrite(buffer, OffsetOf(project, f), tok)
    /\ tamper' = [kind |-> f, at |-> OffsetOf(project, f), tok |-> tok]
    /\ pc' = "tampered"
    /\ UNCHANGED <<project, result, gen>>

ReadProject ==
    /\ pc \in {"written", "tampered"}
    /\ result' = read_project(buffer)
    /\ pc' = "read"
    /\ UNCHANGED <<project, buffer, tamper, gen>>

Next ==
    \/ WriteProject
    \/ \E t \in 0..(Len(buffer) - 1) : Truncate(t)
    \/ \E count \in {-1, MinInt32} : SetIntervalCount(count)
    \/ \E tok \in ProgramVersions \ {project.program_version} :
            ReplaceToken("program_version", tok)
    \/ \E tok \in OtherExtraTokens : ReplaceToken("project_version", tok)
    \/ ReadProject

Spec == Init /\ [][Next]_vars

(***************************************************************************)
(* The generator: main() extends the intervals of the project with the     *)
(* intervals of one call of create_intervals.                              *)
(***************************************************************************)
GenInit ==
    /\ pc = "edit"
    /\ project \in {EbSynthProject, [EbSynthProject EXCEPT !.intervals = <<EbSynthInterval>>]}
    /\ buffer = <<>>
    /\ tamper = NoTamper
    /\ result = NoResult
    /\ gen = NoGen

AddIntervals(first, final, step, left, right, output) ==
    /\ pc = "edit"
    /\ LET template == ReplacePercent(output)
           err == IF step = 0 THEN "ValueError" ELSE NoError
           new == IF step = 0 THEN <<>>
                  ELSE create_intervals(first, final, step, left, right, template)
       IN  /\ gen' = [called |-> TRUE, first |-> first, final |-> final,
                      step |-> step, left |-> left, right |-> right,
                      output |-> template, err |-> err, intervals |-> new]
           /\ project' = [project EXCEPT !.intervals = @ \o new]
    /\ pc' = "generated"
    /\ UNCHANGED <<buffer, tamper, result>>

GenNext ==
    \E first \in Firsts, step \in (-1)..MaxStep,
       left \in (-1)..MaxExtent, right \in (-1)..MaxExtent, output \in Templates :
        \E final \in (first - 1)..(first + MaxSpan) :
            AddIntervals(first, final, step, left, right, output)

GenSpec == GenInit /\ [][GenNext]_vars

(***************************************************************************)
(* Properties of the codec (specification Spec).                           *)
(***************************************************************************)
Untampered == pc = "read" /\ tamper.kind = "none"

\* C1: round trip: reading the file written from a project returns a project
\* equal to it field for field, the order of the intervals and the text of
\* the program_version token included.
C1_RoundTrip ==
    Untampered => (result.err = NoError /\ result.val = project)

C1_Witness ==
    /\ Untampered
    /\ Len(project.intervals) >= 2
    /\ project.intervals[1] # project.intervals[2]
    /\ project.program_version # MAGIC_PROGRAM_VERSION
    /\ project.synthesis_detail < 0
    /\ project.key_images_weight = F_neg_half
    /\ result.val = project

\* the fields of one Interval record, as listed
IntervalFields ==
    <<"key_frame", "first_frame_is_used", "final_frame_is_used",
      "first_frame", "final_frame", "output_path">>

RECURSIVE Repeat(_, _)
Repeat(s, n) == IF n <= 0 THEN <<>> ELSE s \o Repeat(s, n - 1)

\* the fields 1 to 11 in the listed order, for a project of n intervals
ListedOrder(n) ==
    <<"program_version", "video_images_path", "mask_images_path",
      "key_images_path", "mask_images_enabled", "key_images_weight",
      "video_images_weight", "mask_images_weight", "mapping", "de_flicker",
      "diversity", "interval_count">>
    \o Repeat(IntervalFields, n)
    \o <<"project_version", "synthesis_detail", "use_gpu",
         "frames_per_second", "magic_number">>

\* C2 as stated: the file holds the fields 1 to 11 in the listed order and
\* reading it back consumes every one of them, the trailing magic_number
\* included, each at the offset it was written at.
C2_AllFieldsConsumed ==
    Untampered =>
        /\ Names(write_project(project)) = ListedOrder(Len(project.intervals))
        /\ result.log = Layout(write_project(project))
        /\ result.pos = Len(buffer)

\* C2 amended: the file holds the fields 1 to 11 in the listed order and
\* reading it back consumes the fields 1 to 10 in that order, each at the
\* offset it was written at; the 4 bytes of magic_number are left unread.
C2_FieldOrder ==
    Untampered =>
        LET segs == write_project(project)
        IN  /\ Names(segs) = ListedOrder(Len(project.intervals))
            /\ result.err = NoError
            /\ result.log = SubSeq(Layout(segs), 1, Len(segs) - 1)
            /\ result.pos = Len(buffer) - 4
            /\ SubSeq(buffer, result.pos + 1, Len(buffer)) = PackInt(MAGIC_FINAL_INTEGER)

C2_Witness ==
    /\ Untampered
    /\ Len(project.intervals) >= 2
    /\ project.key_images_path = OtherProject.key_images_path
    /\ result.pos = Len(buffer) - 4
    /\ Len(result.log) = Len(write_project(project)) - 1
    /\ result.log[Len(result.log)].f = "frames_per_second"

\* C3: reading a truncated file fails with the end-of-data error, wherever
\* the file was truncated.
C3_TruncationFails ==
    (pc = "read" /\ tamper.kind = "truncate") => result.err = StructError

\* C4: reading a file whose interval count is negative fails with the
\* invalid-encoding error and reads nothing after the count.
C4_NegativeCountFails ==
    (pc = "read" /\ tamper.kind = "count") =>
        /\ result.err = UnicodeDecodeError
        /\ result.log[Len(result.log)].f = "interval_count"

\* the log entry of the field read right after the first field named f
NextAfter(log, f) ==
    LET i == CHOOSE j \in 1..Len(log) : log[j].f = f
    IN  log[i + 1]

\* C5 as stated: with either token replaced by another text of the same
\* length the read succeeds, consumes L + 1 bytes for the token, and the
\* project returned carries the text found in the file.
C5_TokenCarried ==
    /\ (pc = "read" /\ tamper.kind = "program_version") =>
            /\ result.err = NoError
            /\ NextAfter(result.log, "program_version").off
                    = tamper.at + Len(MAGIC_PROGRAM_VERSION) + 1
            /\ result.val.program_version = tamper.tok
    /\ (pc = "read" /\ tamper.kind = "project_version") =>
            /\ result.err = NoError
            /\ NextAfter(result.log, "project_version").off
                    = tamper.at + Len(MAGIC_EXTRA_METADATA) + 1
            /\ "project_version" \in DOMAIN result.val
            /\ result.val.project_version = tamper.tok

\* C5 amended: with either token replaced by another ASCII text of the same
\* length the read succeeds and consumes L + 1 bytes for the token; the
\* project returned carries the program_version found in the file, while
\* the text of the project_version token is dropped: the project has no such
\* field and is the project that was written.
C5_TokenPassThrough ==
    /\ (pc = "read" /\ tamper.kind = "program_version") =>
            /\ result.err = NoError
            /\ NextAfter(result.log, "program_version").off
                    = tamper.at + Len(MAGIC_PROGRAM_VERSION) + 1
            /\ result.val = [project EXCEPT !.program_version = tamper.tok]
    /\ (pc = "read" /\ tamper.kind = "project_version") =>
            /\ result.err = NoError
            /\ NextAfter(result.log, "project_version").off
                    = tamper.at + Len(MAGIC_EXTRA_METADATA) + 1
            /\ "project_version" \notin DOMAIN result.val
            /\ result.val = project

C5_Witness ==
    /\ pc = "read"
    /\ tamper.kind = "program_version"
    /\ tamper.tok = OtherProgramVersion
    /\ project.program_version = MAGIC_PROGRAM_VERSION
    /\ result.val.program_version = OtherProgramVersion
    /\ Len(project.intervals) >= 1

\* the names of the fields read
FieldsRead == {result.log[i].f : i \in 1..Len(result.log)}

ExtraFields == {"synthesis_detail", "use_gpu", "frames_per_second"}

\* the text of the token read after the intervals
ExtraTokenRead ==
    LET i == CHOOSE j \in 1..Len(result.log) : result.log[j].f = "project_version"
        b == Read(buffer, result.log[i].off, Len(MAGIC_EXTRA_METADATA) + 1)
    IN  SubSeq(b, 1, Len(b) - 1)

\* C10: the three fields of the extra metadata are read only when the token
\* read after the intervals is not empty; a file that ends right after the
\* last Interval record is read successfully, and the project returned has
\* the leading fields and intervals of the file and the default
\* synthesis_detail, use_gpu and frames_per_second.
C10_OptionalMetadata ==
    /\ (pc = "read" /\ FieldsRead \cap ExtraFields # {}) =>
            ("project_version" \in FieldsRead /\ ExtraTokenRead # <<>>)
    /\ (/\ pc = "read"
        /\ tamper.kind = "truncate"
        /\ tamper.at = OffsetOf(project, "project_version")) =>
            /\ result.err = NoError
            /\ FieldsRead \cap ExtraFields = {}
            /\ result.val = [project EXCEPT !.synthesis_detail = 2,
                                            !.use_gpu = TRUE,
                                            !.frames_per_second = F_30]

C10_Witness ==
    /\ pc = "read"
    /\ tamper.kind = "truncate"
    /\ tamper.at = OffsetOf(project, "project_version")
    /\ Len(project.intervals) >= 1
    /\ project.synthesis_detail # 2
    /\ ~project.use_gpu
    /\ project.frames_per_second # F_30
    /\ result.err = NoError
    /\ result.val.intervals = project.intervals
    /\ result.val.synthesis_detail = 2

(***************************************************************************)
(* Properties of the generator (specification GenSpec).                    *)
(***************************************************************************)
Generated == gen.called /\ gen.err = NoError

\* the stepped sequence first, first + step, ... not exceeding final
SteppedSeq(first, final, step) ==
    [i \in 1..(IF final < first THEN 0 ELSE (final - first) \div step + 1)
        |-> first + (i - 1) * step]

\* one triple of frames per window of three consecutive elements of S
Windows(S) ==
    [i \in 1..(IF Len(S) >= 3 THEN Len(S) - 2 ELSE 0) |->
        [first_frame |-> S[i], key_frame |-> S[i + 1], final_frame |-> S[i + 2],
         first_frame_is_used |-> TRUE, final_frame_is_used |-> TRUE]]

\* the frames and flags of a sequence of intervals
Frames(intervals) ==
    [i \in 1..Len(intervals) |->
        [first_frame |-> intervals[i].first_frame,
         key_frame |-> intervals[i].key_frame,
         final_frame |-> intervals[i].final_frame,
         first_frame_is_used |-> intervals[i].first_frame_is_used,
         final_frame_is_used |-> intervals[i].final_frame_is_used]]

\* the extents that make an interval reach from one sample before the
\* keyframe to one sample after it
ExtentsAreStep == gen.step > 0 /\ gen.left = gen.step /\ gen.right = gen.step

C7_IndexFromOne ==
    Generated =>
        \A n \in 1..Len(gen.intervals) :
            gen.intervals[n].output_path = Format(gen.output, n)

\* C7 amended: the index is 0-based and contiguous: the n-th interval of a
\* call (n = 1, 2, ...) has its output_path formatted with index n - 1,
\* whatever the value of first.
C7_IndexFromZero ==
    Generated =>
        \A n \in 1..Len(gen.intervals) :
            /\ gen.intervals[n].output_path = Format(gen.output, n - 1)
            /\ gen.intervals[n].output_path # Format(gen.output, n)

C7_Witness ==
    /\ Generated
    /\ gen.first = 100
    /\ Len(gen.intervals) >= 3
    /\ gen.intervals[1].output_path = <<111, 48>>
    /\ gen.intervals[3].output_path = <<111, 50>>

Ordered(interval) ==
    /\ interval.first_frame <= interval.key_frame
    /\ interval.key_frame <= interval.final_frame

\* C8 as stated: every Interval of the generator has
\* first_frame <= key_frame <= final_frame, for every input it accepts.
C8_OrderedAlways ==
    Generated => \A n \in 1..Len(gen.intervals) : Ordered(gen.intervals[n])

\* C8 amended: every Interval of the generator has
\* first_frame <= key_frame <= final_frame when left >= 0, right >= 0 and
\* step >= 1, for every first and final.
C8_OrderedWhenExtentsNonNegative ==
    (Generated /\ gen.left >= 0 /\ gen.right >= 0 /\ gen.step >= 1) =>
        \A n \in 1..Len(gen.intervals) : Ordered(gen.intervals[n])

C8_Witness ==
    /\ Generated
    /\ gen.left = 2
    /\ gen.right = 3
    /\ gen.step = 1
    /\ gen.first = -1
    /\ Len(gen.intervals) >= 2
    /\ gen.intervals[1].first_frame = -1
    /\ gen.intervals[Len(gen.intervals)].final_frame = gen.final

\* C9: every Interval of the generator lies inside [first, final]:
\* first <= first_frame and final_frame <= final, for every first, final,
\* left, right and every positive step.
C9_Containment ==
    (Generated /\ gen.step >= 1) =>
        \A n \in 1..Len(gen.intervals) :
            /\ gen.first <= gen.intervals[n].first_frame
            /\ gen.intervals[n].final_frame <= gen.final

C9_Witness ==
    /\ Generated
    /\ gen.step = 2
    /\ gen.left = -1
    /\ gen.right = 3
    /\ Len(gen.intervals) >= 2
    /\ gen.intervals[Len(gen.intervals)].final_frame = gen.final
    /\ gen.intervals[1].first_frame = gen.first

=============================================================================
